---- MODULE Spec2Model ----
(***************************************************************************)
(* Rule registry / orchestrator (FrenchGrammarRules) and check result      *)
(* assembler (FrenchGrammarChecker) of french_grammar_ai.                  *)
(*                                                                         *)
(* A text is a sequence of one-character strings.  A rule object is a      *)
(* record describing what its apply() does on a parsed document: which     *)
(* tokens it flags, with which category, and whether evaluating it raises  *)
(* (and after how many errors were handed to the caller).                  *)
(***************************************************************************)
EXTENDS Integers, Sequences, FiniteSets, TLC

VARIABLES
    rules,      \* FrenchGrammarRules._rules: dict RuleType -> rule, in insertion order
    registered, \* history: per RuleType, the rule of the last successful add_rule / _load_rules
    op,         \* the operation that produced this state
    arg,        \* the argument of the last add_rule (a rule object) or get_rule (a RuleType)
    text,       \* the text argument of the last check
    errors,     \* the list returned by the last FrenchGrammarRules.check
    result,     \* the GrammarCheckResult returned by the last FrenchGrammarChecker.check
    got,        \* the value returned by the last get_rule
    ai,         \* which call of the external AI model raises during the last check (0: none)
    calls,      \* how often the parser and the AI model were invoked during the last call
    raised      \* whether the last call ended with an exception reaching its caller

vars == <<rules, registered, op, arg, text, errors, result, got, ai, calls, raised>>

----------------------------------------------------------------------------
(* Bounds *)

MaxLen == 4

----------------------------------------------------------------------------
(* RuleType: src/app/cors/__init__.py, class RuleType *)

RuleType == {"ADVERB", "CONJUGATION", "AGREEMENT", "STRUCTURE", "PUNCTUATION"}

\* auto() numbers the members 1..5 in declaration order
RuleTypeValue(t) ==
    CASE t = "ADVERB"      -> 1
      [] t = "CONJUGATION" -> 2
      [] t = "AGREEMENT"   -> 3
      [] t = "STRUCTURE"   -> 4
      [] t = "PUNCTUATION" -> 5

french_label(t) ==
    CASE t = "ADVERB"      -> "Place des adverbes"
      [] t = "CONJUGATION" -> "Conjugaison"
      [] t = "AGREEMENT"   -> "Accord"
      [] t = "STRUCTURE"   -> "Structure de phrase"
      [] t = "PUNCTUATION" -> "Ponctuation"

None == [name |-> "None"]

----------------------------------------------------------------------------
(* Texts and the parser *)

Chars == {"a", " "}

Texts == UNION {[1..n -> Chars] : n \in 0..MaxLen}

Min(a, b) == IF a <= b THEN a ELSE b

\* Python slice s[a:b] for 0 <= a <= b <= len(s)
Slice(s, a, b) == SubSeq(s, a + 1, b)

RECURSIVE lstrip(_)
lstrip(s) == IF s # <<>> /\ Head(s) = " " THEN lstrip(Tail(s)) ELSE s

RECURSIVE rstrip(_)
rstrip(s) ==
    IF s # <<>> /\ s[Len(s)] = " " THEN rstrip(SubSeq(s, 1, Len(s) - 1)) ELSE s

\* str.strip()
strip(s) == rstrip(lstrip(s))

\* positions (1-based) where a token starts
TokenStarts(s) ==
    {p \in 1..Len(s) : s[p] # " " /\ (p = 1 \/ s[p - 1] = " ")}

TokenEnd(s, p) ==
    CHOOSE q \in p..Len(s) :
        /\ \A k \in p..q : s[k] # " "
        /\ (q = Len(s) \/ s[q + 1] = " ")

\* self.nlp(text): the tokens with their character offsets (token.idx) and index (token.i)
nlp(s) ==
    LET st == TokenStarts(s)
        nth(i) == CHOOSE p \in st : Cardinality({q \in st : q < p}) = i - 1
    IN  [i \in 1..Cardinality(st) |->
            [text |-> SubSeq(s, nth(i), TokenEnd(s, nth(i))),
             idx  |-> nth(i) - 1,
             i    |-> i - 1]]

----------------------------------------------------------------------------
(* Rule objects *)

\* what one evaluation of a rule flags: the first or the last token, and the
\* category the GrammarError is given
Pick(sel, tag) == [sel |-> sel, tag |-> tag]

Rule(name, t, out, raises, yielded, conforms) ==
    [name |-> name, rule_type |-> t, out |-> out,
     raises |-> raises, yielded |-> yielded, conforms |-> conforms]

\* The four built-in rules: each flags nothing or the last token, under its own category
BuiltinQuiet(t) == Rule("builtin", t, <<>>, FALSE, 0, TRUE)
BuiltinFlag(t)  == Rule("builtin", t, <<Pick("last", t)>>, FALSE, 0, TRUE)

OtherTag(t) == IF t = "ADVERB" THEN "PUNCTUATION" ELSE "ADVERB"

\* the rule types for which custom rules are supplied: one that replaces the
\* first built-in rule, one that replaces the last, and the type with no built-in rule
CustomTypes == {"ADVERB", "STRUCTURE", "PUNCTUATION"}

\* Externally supplied objects handed to add_rule: a rule that produces its
\* errors out of offset order, one whose errors carry another category than the
\* one it is registered under, one that raises after one error was handed over,
\* one that raises before any, and an object without the GrammarRule capability
CustomRulesOf(t) ==
    { Rule("unordered", t, <<Pick("last", t), Pick("first", t)>>, FALSE, 0, TRUE),
      Rule("foreign",   t, <<Pick("first", OtherTag(t))>>, FALSE, 0, TRUE),
      Rule("partial",   t, <<Pick("last", t), Pick("first", t)>>, TRUE, 1, TRUE),
      Rule("failing",   t, <<Pick("first", t)>>, TRUE, 0, TRUE) }

CustomRules ==
    UNION {CustomRulesOf(t) : t \in CustomTypes}
    \cup { Rule("not_a_rule", "ADVERB", <<>>, FALSE, 0, FALSE) }

\* rule.apply(doc): the GrammarErrors in the order the rule produces them
apply(rule, doc) ==
    LET n      == IF doc = <<>> THEN 0 ELSE Len(rule.out)
        tok(i) == IF rule.out[i].sel = "first" THEN doc[1] ELSE doc[Len(doc)]
    IN  [i \in 1..n |->
            [rule_type   |-> rule.out[i].tag,
             start_pos   |-> tok(i).idx,
             end_pos     |-> tok(i).idx + Len(tok(i).text),
             source_text |-> <<>>,
             flagged     |-> tok(i).text,
             origin      |-> rule.rule_type]]

----------------------------------------------------------------------------
(* FrenchGrammarRules *)

dict_has(d, k) == \E i \in DOMAIN d : d[i].key = k

dict_get(d, k) ==
    IF dict_has(d, k) THEN d[CHOOSE i \in DOMAIN d : d[i].key = k].rule ELSE None

\* faulty variant: the new rule is added without replacing the one already present
dict_set_append(d, k, v) == Append(d, [key |-> k, rule |-> v])

dict_set(d, k, v) ==
    IF dict_has(d, k)
    THEN [i \in DOMAIN d |-> IF d[i].key = k THEN [key |-> k, rule |-> v] ELSE d[i]]
    ELSE Append(d, [key |-> k, rule |-> v])

\* _load_rules under a choice b of the built-in rules' behaviour
load_rules(b) ==
    << [key |-> "ADVERB",      rule |-> b["ADVERB"]],
       [key |-> "CONJUGATION", rule |-> b["CONJUGATION"]],
       [key |-> "AGREEMENT",   rule |-> b["AGREEMENT"]],
       [key |-> "STRUCTURE",   rule |-> b["STRUCTURE"]] >>

\* faulty variant: the original text is not attached to the errors
rule_errors_unattached(rule, doc, s) ==
    LET produced == apply(rule, doc)
        n == IF rule.raises THEN Min(rule.yielded, Len(produced)) ELSE Len(produced)
    IN  SubSeq(produced, 1, n)

\* the body of the try block for one rule: the errors appended before the
\* rule's evaluation ends or raises, each with the original text attached
rule_errors(rule, doc, s) ==
    LET produced == apply(rule, doc)
        n == IF rule.raises THEN Min(rule.yielded, Len(produced)) ELSE Len(produced)
    IN  [i \in 1..n |-> [produced[i] EXCEPT !.source_text = s]]

\* faulty variant: a raising rule ends the loop: the rules behind it are not evaluated
RECURSIVE collect_abort(_, _, _, _)
collect_abort(d, i, doc, s) ==
    IF i > Len(d) THEN <<>>
    ELSE IF d[i].rule.raises THEN rule_errors(d[i].rule, doc, s)
    ELSE rule_errors(d[i].rule, doc, s) \o collect_abort(d, i + 1, doc, s)

\* the loop over self._rules.values() from position i on
RECURSIVE collect(_, _, _, _)
collect(d, i, doc, s) ==
    IF i > Len(d) THEN <<>>
    ELSE rule_errors(d[i].rule, doc, s) \o collect(d, i + 1, doc, s)

\* insert x behind the last element whose start_pos is <= x.start_pos
RECURSIVE insert(_, _)
insert(sq, x) ==
    IF sq = <<>> THEN <<x>>
    ELSE IF sq[Len(sq)].start_pos <= x.start_pos THEN Append(sq, x)
    ELSE Append(insert(SubSeq(sq, 1, Len(sq) - 1), x), sq[Len(sq)])

\* faulty variant: the merged list is returned in collection order
sorted_missing(sq) == sq

\* sorted(errors, key=lambda e: e.start_pos): stable
RECURSIVE sorted(_)
sorted(sq) ==
    IF sq = <<>> THEN <<>>
    ELSE insert(sorted(SubSeq(sq, 1, Len(sq) - 1)), sq[Len(sq)])

\* FrenchGrammarRules.check
rules_check(d, s) == sorted(collect(d, 1, nlp(s), s))

\* FrenchGrammarRules.get_rule
get_rule(d, t) == dict_get(d, t)

\* faulty variant: the object is registered without the isinstance test
add_rule_unchecked(d, r) == dict_set(d, r.rule_type, r)

\* FrenchGrammarRules.add_rule
add_rule(d, r) == IF r.conforms THEN dict_set(d, r.rule_type, r) ELSE d

----------------------------------------------------------------------------------------------------------------------------------------------
(* FrenchGrammarChecker *)

NumPrompts == 2

NoCalls == [nlp |-> 0, ai |-> 0]

Labels == {french_label(t) : t \in RuleType}

\* the text the external AI model generates for the k-th prompt built from s
generated_text(k, s) == [prompt |-> k, text |-> s]

\* faulty variant: the AI model is queried whether or not there are errors
get_ai_suggestions_always(s, errs, fail) ==
    IF fail \in 1..NumPrompts
    THEN [ret |-> <<>>, calls |-> fail, exc |-> FALSE]
    ELSE [ret |-> [k \in 1..NumPrompts |-> generated_text(k, s)],
          calls |-> NumPrompts, exc |-> FALSE]

\* faulty variant: a failing call keeps the suggestions of the earlier prompts
get_ai_suggestions_partial(s, errs, fail) ==
    IF errs = <<>> THEN [ret |-> <<>>, calls |-> 0, exc |-> FALSE]
    ELSE LET n == IF fail \in 1..NumPrompts THEN fail - 1 ELSE NumPrompts
         IN  [ret |-> [k \in 1..n |-> generated_text(k, s)],
              calls |-> IF fail \in 1..NumPrompts THEN fail ELSE NumPrompts,
              exc |-> FALSE]

\* FrenchGrammarChecker._get_ai_suggestions; fail is the call of the AI model
\* that raises (0: none).  ret is the returned list, calls the number of
\* invocations of the model, exc whether an exception leaves the method
get_ai_suggestions(s, errs, fail) ==
    IF errs = <<>> THEN [ret |-> <<>>, calls |-> 0, exc |-> FALSE]
    ELSE IF fail \in 1..NumPrompts
         THEN [ret |-> <<>>, calls |-> fail, exc |-> FALSE]
         ELSE [ret |-> [k \in 1..NumPrompts |-> generated_text(k, s)],
               calls |-> NumPrompts, exc |-> FALSE]

\* analyze_sentence_structure: one entry per token of a fresh parse
analyze_sentence_structure(s) ==
    LET doc == nlp(s) IN [i \in DOMAIN doc |-> [text |-> doc[i].text]]

\* FrenchGrammarChecker._generate_stats
generate_stats(errs) ==
    [total_errors |-> Len(errs),
     by_type |-> [l \in Labels |->
                    Cardinality({i \in DOMAIN errs : french_label(errs[i].rule_type) = l})]]

\* FrenchGrammarChecker._empty_result
empty_result(s) ==
    [original_text |-> s, errors |-> <<>>, structure |-> <<>>,
     ai_suggestions |-> <<>>,
     stats |-> [total_errors |-> 0, by_type |-> [l \in {} |-> 0]],
     calls |-> NoCalls, exc |-> FALSE]

\* FrenchGrammarChecker.check; besides the GrammarCheckResult fields the record
\* carries the invocation counts and whether an exception reached the caller
checker_check(d, s, fail) ==
    IF strip(s) = <<>> THEN empty_result(s)
    ELSE LET errs == rules_check(d, s)
             sugg == get_ai_suggestions(s, errs, fail)
         IN  [original_text |-> s,
              errors |-> errs,
              structure |-> analyze_sentence_structure(s),
              ai_suggestions |-> sugg.ret,
              stats |-> generate_stats(errs),
              calls |-> [nlp |-> 2, ai |-> sugg.calls],
              exc |-> sugg.exc]

----------
(* Specification *)

NoResult == [name |-> "NoResult"]

Init ==
    /\ \E b \in [RuleType \ {"PUNCTUATION"} -> BOOLEAN] :
          LET beh == [t \in RuleType \ {"PUNCTUATION"} |->
                        IF b[t] THEN BuiltinFlag(t) ELSE BuiltinQuiet(t)]
          IN  /\ rules = load_rules(beh)
              /\ registered = [t \in RuleType |->
                                 IF t = "PUNCTUATION" THEN None ELSE beh[t]]
    /\ op = "idle"
    /\ arg = None
    /\ text = <<>>
    /\ errors = <<>>
    /\ result = NoResult
    /\ got = None
    /\ ai = 0
    /\ calls = NoCalls
    /\ raised = FALSE

\* FrenchGrammarRules.add_rule(r)
AddRule ==
    \E r \in CustomRules :
        /\ op = "idle"
        /\ rules' = add_rule(rules, r)
        /\ registered' = IF r.conforms
                         THEN [registered EXCEPT ![r.rule_type] = r]
                         ELSE registered
        /\ op' = "add_rule"
        /\ arg' = r
        /\ UNCHANGED <<text, errors, result, got, ai, calls, raised>>

\* FrenchGrammarRules.get_rule(t)
GetRule ==
    \E t \in RuleType :
        /\ op = "idle"
        /\ got' = get_rule(rules, t)
        /\ op' = "get_rule"
        /\ arg' = t
        /\ UNCHANGED <<rules, registered, text, errors, result, ai, calls, raised>>

\* FrenchGrammarRules.check(s)
RulesCheck ==
    \E s \in Texts :
        /\ op = "idle"
        /\ errors' = rules_check(rules, s)
        /\ text' = s
        /\ op' = "check"
        /\ calls' = [nlp |-> 1, ai |-> 0]
        /\ UNCHANGED <<rules, registered, arg, result, got, ai, raised>>

\* FrenchGrammarChecker.check(s), the fail-th call of the AI model raising
CheckerCheck ==
    \E s \in Texts, fail \in 0..NumPrompts :
        LET r == checker_check(rules, s, fail)
        IN  /\ op = "idle"
            /\ result' = [original_text |-> r.original_text, errors |-> r.errors,
                          structure |-> r.structure,
                          ai_suggestions |-> r.ai_suggestions, stats |-> r.stats]
            /\ errors' = r.errors
            /\ text' = s
            /\ ai' = fail
            /\ calls' = r.calls
            /\ raised' = r.exc
            /\ op' = "checker_check"
            /\ UNCHANGED <<rules, registered, arg, got>>

\* the call returns; the service is ready for the next one
Return ==
    /\ op # "idle"
    /\ op' = "idle"
    /\ arg' = None /\ text' = <<>> /\ errors' = <<>> /\ result' = NoResult
    /\ got' = None /\ ai' = 0 /\ calls' = NoCalls /\ raised' = FALSE
    /\ UNCHANGED <<rules, registered>>

Next == AddRule \/ GetRule \/ RulesCheck \/ CheckerCheck \/ Return

Spec == Init /\ [][Next]_vars

----------------------------------------------------------------------------
(* Properties *)

Checked == op \in {"check", "checker_check"}

RegisteredRules == {rules[i].rule : i \in DOMAIN rules}

\* the errors of a list that do not come from the rule registered under t
Others(errs, t) == SelectSeq(errs, LAMBDA e : e.origin # t)

\* C1: the list returned by FrenchGrammarRules.check is sorted by start offset
\* ascending, for every text and every registry, raising rules included.
C1_SortedByStart ==
    Checked =>
        \A i \in 1..(Len(errors) - 1) : errors[i].start_pos <= errors[i + 1].start_pos

\* a check in which a registered rule raised and the errors were collected in
\* another order than the one returned
C1_Witness ==
    /\ op = "check"
    /\ \E r \in RegisteredRules : r.raises
    /\ Len(errors) >= 2
    /\ errors[1].start_pos < errors[Len(errors)].start_pos
    /\ collect(rules, 1, nlp(text), text) # errors

\* C2: two errors of the returned list with the same start offset appear in
\* rule-category enum order (Adverb < Conjugation < Agreement < Structure <
\* Punctuation).
C2_TiesInEnumOrder ==
    Checked =>
        \A i \in 1..(Len(errors) - 1) :
            errors[i].start_pos = errors[i + 1].start_pos =>
                RuleTypeValue(errors[i].rule_type) <= RuleTypeValue(errors[i + 1].rule_type)

\* the registry without the rules whose evaluation raises
WithoutRaising(d) == SelectSeq(d, LAMBDA en : ~en.rule.raises)

\* C3: when a registered rule raises during check, check returns normally, the
\* returned list holds no error of the failing rule, and it holds exactly the
\* errors of the other registered rules.
C3_FailingRuleCountsZero ==
    op = "check" =>
        /\ raised = FALSE
        /\ \A k \in DOMAIN errors : ~dict_get(rules, errors[k].origin).raises
        /\ errors = rules_check(WithoutRaising(rules), text)

\* C4: for empty or whitespace-only text FrenchGrammarChecker.check returns zero
\* errors, no AI suggestions and stats in which all five categories are present
\* with count zero, and invokes neither the parser nor the AI suggester.
C4_EmptyInput ==
    (op = "checker_check" /\ strip(text) = <<>>) =>
        /\ result.errors = <<>>
        /\ result.ai_suggestions = <<>>
        /\ result.stats.total_errors = 0
        /\ DOMAIN result.stats.by_type = Labels
        /\ \A l \in DOMAIN result.stats.by_type : result.stats.by_type[l] = 0
        /\ calls.nlp = 0
        /\ calls.ai = 0

\* C5: in every result of FrenchGrammarChecker.check the stats hold the total
\* equal to the length of the error list and a per-category mapping with all
\* five categories, each mapped to the number of errors of that category.
C5_StatsComplete ==
    op = "checker_check" =>
        /\ result.stats.total_errors = Len(result.errors)
        /\ DOMAIN result.stats.by_type = Labels
        /\ \A t \in RuleType :
              result.stats.by_type[french_label(t)] =
                  Cardinality({i \in DOMAIN result.errors : result.errors[i].rule_type = t})

\* C6: the external AI suggester is called only when the rule-based error list
\* is non-empty; with an empty list it is never invoked and ai_suggestions is
\* the empty list.
C6_AIOnlyOnErrors ==
    op = "checker_check" =>
        /\ (calls.ai > 0 => result.errors # <<>>)
        /\ (result.errors = <<>> => calls.ai = 0 /\ result.ai_suggestions = <<>>)

\* a check of a non-blank text without errors, with an AI model that would raise
C6_Witness ==
    /\ op = "checker_check"
    /\ strip(text) # <<>>
    /\ result.errors = <<>>
    /\ ai = 1
    /\ calls.ai = 0

\* C7: when a call of the AI suggester raises, the exception does not reach the
\* caller, ai_suggestions is the empty list (earlier suggestions are dropped),
\* and errors and stats are those of the check with a working AI model.
C7_AIFailureSwallowed ==
    (op = "checker_check" /\ ai \in 1..NumPrompts /\ result.errors # <<>>) =>
        /\ raised = FALSE
        /\ result.ai_suggestions = <<>>
        /\ result.errors = checker_check(rules, text, 0).errors
        /\ result.stats = checker_check(rules, text, 0).stats
        /\ Len(checker_check(rules, text, 0).ai_suggestions) = NumPrompts

\* the second call of the AI model raised after the first had succeeded
C7_Witness ==
    /\ op = "checker_check"
    /\ ai = 2
    /\ calls.ai = 2
    /\ result.errors # <<>>
    /\ result.ai_suggestions = <<>>

\* C8: the registry holds at most one rule per RuleType, get_rule(t) returns the
\* rule most recently registered with type t (the rules of the other types are
\* left as they were), and None for a type never registered.
C8_RegistryLatestRule ==
    /\ \A i, j \in DOMAIN rules : rules[i].key = rules[j].key => i = j
    /\ \A t \in RuleType : get_rule(rules, t) = registered[t]
    /\ op = "get_rule" => got = registered[arg]

\* get_rule returns a replaced rule while another type holds its built-in rule
\* and Punctuation was never registered
C8_Witness ==
    /\ op = "get_rule"
    /\ arg = "STRUCTURE"
    /\ got.name = "partial"
    /\ registered["ADVERB"].name = "unordered"
    /\ registered["AGREEMENT"].name = "builtin"
    /\ get_rule(rules, "PUNCTUATION") = None

\* the rules that can stand in the registry under type t
RulesOf(t) == CustomRulesOf(t) \cup {BuiltinQuiet(t), BuiltinFlag(t)}

\* the registry with the rule of type t removed
RemoveRule(d, t) == SelectSeq(d, LAMBDA en : en.key # t)

\* C9: rule independence: the errors of the other rules, in their relative
\* order, are the same whether the rule of type t is present, removed,
\* replaced, or raises during evaluation.
C9_RuleIndependence ==
    op = "check" =>
        \A t \in RuleType :
            /\ Others(errors, t) = Others(rules_check(RemoveRule(rules, t), text), t)
            /\ \A r \in RulesOf(t) :
                  Others(errors, t) = Others(rules_check(add_rule(rules, r), text), t)

\* a check with a raising rule in front of rules that reported errors
C9_Witness ==
    /\ op = "check"
    /\ rules[1].rule.raises
    /\ \E k \in DOMAIN errors : errors[k].origin = "ADVERB"
    /\ \E k \in DOMAIN errors : errors[k].origin = "STRUCTURE"
    /\ \E k \in DOMAIN errors : errors[k].origin = "PUNCTUATION"

Reorderings(d) ==
    {[i \in DOMAIN d |-> d[p[i]]] : p \in Permutations(DOMAIN d)}

C17_RegistryFrame ==
    [][/\ op' \in {"check", "checker_check"} => rules' = rules
       /\ (op' = "add_rule" /\ ~arg'.conforms) =>
              (rules' = rules /\ raised' = FALSE)]_vars

\* add_rule was handed an object without the capability while the registry
\* holds a raising custom rule under the same type
C17_Witness ==
    /\ op = "add_rule"
    /\ arg.name = "not_a_rule"
    /\ get_rule(rules, arg.rule_type).name = "partial"
    /\ get_rule(rules, arg.rule_type) = registered[arg.rule_type]

----------------------------------------------------------------------------
(* GrammarError.highlighted and GrammarCheckResult.to_dict *)

OpenMark  == <<">", ">", ">">>
CloseMark == <<"<", "<", "<">>

\* Python slice s[a:b] for a, b >= 0: the bounds are clamped to len(s)
py_slice(s, a, b) == SubSeq(s, Min(a, Len(s)) + 1, Min(b, Len(s)))

\* faulty variant: the text behind the span starts one character late
highlighted_skip(e) ==
    py_slice(e.source_text, 0, e.start_pos) \o OpenMark
        \o py_slice(e.source_text, e.start_pos, e.end_pos) \o CloseMark
        \o py_slice(e.source_text, e.end_pos + 1, Len(e.source_text))

\* GrammarError.highlighted (a property: evaluated on the fields as they are)
highlighted(e) ==
    py_slice(e.source_text, 0, e.start_pos) \o OpenMark
        \o py_slice(e.source_text, e.start_pos, e.end_pos) \o CloseMark
        \o py_slice(e.source_text, e.end_pos, Len(e.source_text))

\* GrammarCheckResult.to_dict
to_dict(r) ==
    [text |-> r.original_text,
     error_count |-> Len(r.errors),
     errors |-> [i \in DOMAIN r.errors |->
                    [type |-> french_label(r.errors[i].rule_type),
                     context |-> highlighted(r.errors[i]),
                     start_pos |-> r.errors[i].start_pos,
                     end_pos |-> r.errors[i].end_pos]],
     structure |-> r.structure,
     ai_suggestions |-> r.ai_suggestions,
     stats |-> r.stats]

\* the GrammarError objects a rule may construct over some text
GrammarErrors ==
    {[rule_type |-> "AGREEMENT", start_pos |-> a, end_pos |-> b, source_text |-> s,
      flagged |-> py_slice(s, a, b), origin |-> "AGREEMENT"] :
        s \in Texts, a \in 0..MaxLen, b \in 0..MaxLen}

AllQuiet == [t \in RuleType \ {"PUNCTUATION"} |-> BuiltinQuiet(t)]
AllFlag  == [t \in RuleType \ {"PUNCTUATION"} |-> BuiltinFlag(t)]

\* a service with its built-in rules and one GrammarError object at hand
InitError ==
    /\ rules = load_rules(AllQuiet)
    /\ registered = [t \in RuleType |-> IF t = "PUNCTUATION" THEN None ELSE AllQuiet[t]]
    /\ op = "idle"
    /\ arg \in GrammarErrors
    /\ text = <<>> /\ errors = <<>> /\ result = NoResult
    /\ got = None /\ ai = 0 /\ calls = NoCalls /\ raised = FALSE

\* error.source_text = text, as check does for every error it collects
Attach ==
    \E s \in Texts :
        /\ arg' = [arg EXCEPT !.source_text = s]
        /\ op' = "attach"
        /\ got' = None /\ result' = NoResult
        /\ UNCHANGED <<rules, registered, text, errors, ai, calls, raised>>

\* an access to error.highlighted
Highlighted ==
    /\ got' = highlighted(arg)
    /\ op' = "highlighted"
    /\ result' = NoResult
    /\ UNCHANGED <<rules, registered, arg, text, errors, ai, calls, raised>>

\* to_dict of a result that holds the error
ToDict ==
    /\ result' = [original_text |-> arg.source_text, errors |-> <<arg>>,
                  structure |-> analyze_sentence_structure(arg.source_text),
                  ai_suggestions |-> <<>>, stats |-> generate_stats(<<arg>>)]
    /\ got' = to_dict(result')
    /\ op' = "to_dict"
    /\ UNCHANGED <<rules, registered, arg, text, errors, ai, calls, raised>>

NextError == Attach \/ Highlighted \/ ToDict

SpecError == InitError /\ [][NextError]_vars

\* the highlighted string handed out by the last access
LastHighlighted == IF op = "to_dict" THEN got.errors[1].context ELSE got

\* C11: for a GrammarError with 0 <= start_pos <= end_pos <= len(source_text),
\* highlighted is the text before the span, '>>>', the span, '<<<' and the text
\* behind it, computed from the fields as they are at the access; deleting the
\* two markers gives back source_text.
C11_Highlighted ==
    (/\ op \in {"highlighted", "to_dict"}
     /\ arg.start_pos <= arg.end_pos
     /\ arg.end_pos <= Len(arg.source_text)) =>
        LET h == LastHighlighted
            src == arg.source_text
            a == arg.start_pos
            b == arg.end_pos
        IN  /\ h = SubSeq(src, 1, a) \o <<">", ">", ">">> \o SubSeq(src, a + 1, b)
                     \o <<"<", "<", "<">> \o SubSeq(src, b + 1, Len(src))
            /\ SubSeq(h, 1, a) \o SubSeq(h, a + 4, b + 3) \o SubSeq(h, b + 7, Len(h)) = src

\* highlighted read after another text was attached to the error: the span
\* now covers other characters than the ones the rule flagged
C11_Witness ==
    /\ op = "highlighted"
    /\ arg.start_pos = 1
    /\ arg.end_pos = 3
    /\ Len(arg.source_text) = 4
    /\ arg.flagged # SubSeq(arg.source_text, 2, 3)

----------------------------------------------------------------------------
(* Parsed sentences and the adverb utilities of common/utils.py *)

MaxTok == 4

\* a token of a parsed sentence; head is the position (1-based) of its head in
\* the sentence, the root being its own head
Token(word, lemma, pos, dep, tag) ==
    [text |-> word, lemma |-> lemma, pos |-> pos, dep |-> dep, tag |-> tag]

TokenKinds ==
    { Token("Je", "je", "PRON", "nsubj", ""),
      Token("rapidement", "rapidement", "ADV", "advmod", ""),
      Token("mange", "manger", "VERB", "dep", "VerbForm=Fin"),
      Token("mangé", "manger", "VERB", "dep", "VerbForm=Part"),
      Token("ai", "avoir", "AUX", "dep", "VerbForm=Fin"),
      Token("vais", "aller", "AUX", "dep", "VerbForm=Fin") }

RECURSIVE climb(_, _, _)
climb(h, i, k) == IF k = 0 THEN i ELSE climb(h, h[i], k - 1)

\* the head pointers form a tree: one root, reached from every token
IsTree(h) ==
    /\ Cardinality({i \in DOMAIN h : h[i] = i}) = 1
    /\ \A i \in DOMAIN h : h[climb(h, i, Len(h))] = climb(h, i, Len(h))

\* the document with the tokens ks and the head pointers h
MkDoc(ks, h) ==
    [i \in DOMAIN ks |->
        [text |-> ks[i].text, lemma |-> ks[i].lemma, pos |-> ks[i].pos,
         dep |-> IF h[i] = i THEN "ROOT" ELSE ks[i].dep,
         tag |-> ks[i].tag, head |-> h[i], i |-> i - 1]]

\* the head pointers of the sentences of n tokens
Trees(n) == {h \in [1..n -> 1..n] : IsTree(h)}

\* "Je mange rapidement": subject and adverb attached to the verb
JeMangeRapidement ==
    MkDoc(<<Token("Je", "je", "PRON", "nsubj", ""),
            Token("mange", "manger", "VERB", "dep", "VerbForm=Fin"),
            Token("rapidement", "rapidement", "ADV", "advmod", "")>>,
          <<2, 2, 2>>)

JaiTokens ==
    <<Token("Je", "je", "PRON", "nsubj", ""),
      Token("ai", "avoir", "AUX", "dep", "VerbForm=Fin"),
      Token("rapidement", "rapidement", "ADV", "advmod", ""),
      Token("mangé", "manger", "VERB", "dep", "VerbForm=Part")>>

\* "J'ai rapidement mangé" parsed with the auxiliary as head of the clause
JaiRapidementMangeAux == MkDoc(JaiTokens, <<2, 2, 2, 2>>)

\* the same sentence parsed with the participle as head of the clause
JaiRapidementMangeVerb == MkDoc(JaiTokens, <<4, 4, 4, 4>>)

\* "J'ai souvent rapidement mangé": two adverbs behind the auxiliary
JaiSouventRapidementMange ==
    MkDoc(<<Token("Je", "je", "PRON", "nsubj", ""),
            Token("ai", "avoir", "AUX", "dep", "VerbForm=Fin"),
            Token("souvent", "souvent", "ADV", "advmod", ""),
            Token("rapidement", "rapidement", "ADV", "advmod", ""),
            Token("mangé", "manger", "VERB", "dep", "VerbForm=Part")>>,
          <<2, 2, 2, 2, 2>>)

ScenarioDocs ==
    {JeMangeRapidement, JaiRapidementMangeAux, JaiRapidementMangeVerb,
     JaiSouventRapidementMange}

\* token.lefts / token.rights: the positions of the children before / behind j
lefts(doc, j)  == {k \in DOMAIN doc : doc[k].head = j /\ k < j}
rights(doc, j) == {k \in DOMAIN doc : doc[k].head = j /\ k > j}

\* the tokens of doc at the positions P, in sentence order
RECURSIVE tokens_at(_, _)
tokens_at(doc, P) ==
    IF P = {} THEN <<>>
    ELSE LET k == CHOOSE x \in P : \A y \in P : x <= y
         IN  <<doc[k]>> \o tokens_at(doc, P \ {k})

\* the values detect_compound_tenses returns besides None
PasseCompose   == [name |-> "passé composé"]
PlusQueParfait == [name |-> "plus-que-parfait"]

\* faulty variant: the lemma of the auxiliary is not looked at
detect_compound_tenses_any(verb_phrase) ==
    LET auxiliaries == SelectSeq(verb_phrase, LAMBDA t : t.pos = "AUX")
        verbs == SelectSeq(verb_phrase,
                     LAMBDA t : t.pos = "VERB" /\ t.lemma # "être" /\ t.lemma # "avoir")
    IN  IF auxiliaries = <<>> \/ verbs = <<>> THEN None
        ELSE IF Len(auxiliaries) = 1 THEN PasseCompose
        ELSE IF Len(auxiliaries) = 2 THEN PlusQueParfait
        ELSE None

\* detect_compound_tenses
detect_compound_tenses(verb_phrase) ==
    LET auxiliaries == SelectSeq(verb_phrase, LAMBDA t : t.pos = "AUX")
        verbs == SelectSeq(verb_phrase,
                     LAMBDA t : t.pos = "VERB" /\ t.lemma # "être" /\ t.lemma # "avoir")
    IN  IF auxiliaries = <<>> \/ verbs = <<>> THEN None
        ELSE IF Len(auxiliaries) = 1 /\ auxiliaries[1].lemma \in {"avoir", "être"}
             THEN PasseCompose
        ELSE IF /\ Len(auxiliaries) = 2
                /\ auxiliaries[1].lemma \in {"avoir", "être"}
                /\ auxiliaries[2].lemma = "avoir"
             THEN PlusQueParfait
        ELSE None

\* the first check of the loop body: the adverb at i hangs on a verb that has a
\* subject among its left children
separates_subject(doc, i) ==
    /\ doc[doc[i].head].pos = "VERB"
    /\ \E k \in lefts(doc, doc[i].head) : doc[k].dep \in {"nsubj", "nsubj:pass"}

\* the tense found by the second check of the loop body, None when it does not apply
compound_tense_of(doc, i) ==
    IF doc[doc[i].head].pos = "AUX" /\ doc[i].i > doc[doc[i].head].i
    THEN detect_compound_tenses(
             <<doc[doc[i].head]>> \o
             tokens_at(doc, {k \in rights(doc, doc[i].head) : doc[k].pos = "VERB"}))
    ELSE None

\* the loop of validate_adverb_placement from position i on: the tuple
\* (is_valid, error_message); a message is its template with the adverb's
\* position, and the tense and the auxiliary's position for the second template
RECURSIVE validate_from(_, _)
validate_from(doc, i) ==
    IF i > Len(doc) THEN [is_valid |-> TRUE, message |-> None]
    ELSE IF doc[i].pos = "ADV" /\ separates_subject(doc, i)
         THEN [is_valid |-> FALSE,
               message |-> [template |-> "mal placé", adverb |-> i]]
    ELSE IF doc[i].pos = "ADV" /\ compound_tense_of(doc, i) # None
         THEN [is_valid |-> FALSE,
               message |-> [template |-> "après l'auxiliaire", adverb |-> i,
                            tense |-> compound_tense_of(doc, i),
                            auxiliary |-> doc[i].head]]
    ELSE validate_from(doc, i + 1)

\* validate_adverb_placement, on the parse of the sentence
validate_adverb_placement(doc) == validate_from(doc, 1)

InitAdverb ==
    /\ rules = load_rules(AllQuiet)
    /\ registered = [t \in RuleType |-> IF t = "PUNCTUATION" THEN None ELSE AllQuiet[t]]
    /\ op = "idle"
    /\ \/ \E n \in 1..MaxTok : \E ks \in [1..n -> TokenKinds], h \in Trees(n) :
              arg = MkDoc(ks, h)
       \/ arg \in ScenarioDocs
    /\ text = <<>> /\ errors = <<>> /\ result = NoResult
    /\ got = None /\ ai = 0 /\ calls = NoCalls /\ raised = FALSE

\* validate_adverb_placement(sentence), arg being the parse of the sentence
Validate ==
    /\ op = "idle"
    /\ got' = validate_adverb_placement(arg)
    /\ op' = "validate"
    /\ UNCHANGED <<rules, registered, arg, text, errors, result, ai, calls, raised>>

NextAdverb == Validate

SpecAdverb == InitAdverb /\ [][NextAdverb]_vars

\* the adverb at position i hangs on a finite verb and stands behind it
AfterFiniteVerb(doc, i) ==
    /\ doc[i].pos = "ADV"
    /\ doc[doc[i].head].pos = "VERB"
    /\ doc[doc[i].head].tag = "VerbForm=Fin"
    /\ doc[i].i > doc[doc[i].head].i

\* the call reported the adverb at position i
Reported(r, i) == r.is_valid = FALSE /\ r.message.adverb = i

\* C12: an adverb whose head is a finite verb and which stands after that verb
\* produces no adverb-placement error, also when the verb has a subject on its
\* left; "Je mange rapidement." is reported valid.
C12_AdverbAfterVerbAccepted ==
    op = "validate" =>
        /\ \A i \in DOMAIN arg : AfterFiniteVerb(arg, i) => ~Reported(got, i)
        /\ arg = JeMangeRapidement => got.is_valid = TRUE

\* the adverb at position i hangs on an auxiliary avoir / être in front of it
\* that has a verb other than avoir / être among its right children
AfterCompoundAuxiliary(doc, i) ==
    /\ doc[i].pos = "ADV"
    /\ doc[doc[i].head].pos = "AUX"
    /\ doc[i].i > doc[doc[i].head].i
    /\ doc[doc[i].head].lemma \in {"avoir", "être"}
    /\ \E k \in DOMAIN doc :
          /\ doc[k].head = doc[i].head /\ k > doc[i].head
          /\ doc[k].pos = "VERB" /\ doc[k].lemma \notin {"avoir", "être"}

\* the adverb at position i hangs on a verb with a subject among its left children
BehindSubjectOfVerb(doc, i) ==
    /\ doc[i].pos = "ADV"
    /\ doc[doc[i].head].pos = "VERB"
    /\ \E k \in DOMAIN doc :
          /\ doc[k].head = doc[i].head /\ k < doc[i].head
          /\ doc[k].dep \in {"nsubj", "nsubj:pass"}

\* the call reported the compound-tense misplacement of the adverb at i
ReportedCompound(r, doc, i) ==
    /\ r.is_valid = FALSE
    /\ r.message.template = "après l'auxiliaire"
    /\ r.message.adverb = i
    /\ r.message.auxiliary = doc[i].head

\* C13: every adverb behind its compound-tense auxiliary is reported
\* as a compound-tense misplacement, and "J'ai rapidement mangé." gives that
\* error whichever of its parses the parser returns.
C13_CompoundAdverbReported ==
    op = "validate" =>
        /\ \A i \in DOMAIN arg :
              AfterCompoundAuxiliary(arg, i) => ReportedCompound(got, arg, i)
        /\ arg \in {JaiRapidementMangeAux, JaiRapidementMangeVerb} =>
              ReportedCompound(got, arg, 3)

\* what the loop does guarantee for C13's case: the first adverb in violation
\* is the one reported, so an adverb behind its compound-tense auxiliary is
\* reported as a compound-tense misplacement unless an earlier adverb of the
\* sentence is in violation, and "J'ai rapidement mangé." gives that error
\* under the parse that attaches adverb and participle to the auxiliary.
C13_FirstCompoundAdverbReported ==
    op = "validate" =>
        /\ \A i \in DOMAIN arg :
              (/\ AfterCompoundAuxiliary(arg, i)
               /\ ~\E k \in 1..(i - 1) :
                      AfterCompoundAuxiliary(arg, k) \/ BehindSubjectOfVerb(arg, k))
                  => ReportedCompound(got, arg, i)
        /\ arg = JaiRapidementMangeAux =>
              /\ ReportedCompound(got, arg, 3)
              /\ got.message.tense = PasseCompose

\* the sentence checked under the parse with the auxiliary as head
JaiCheckedUnderAuxParse ==
    /\ op = "validate"
    /\ arg = JaiRapidementMangeAux
    /\ got.is_valid = FALSE

----------------------------------------------------------------------------
(* detect_compound_tenses on its own *)

MaxPhrase == 3

\* the tokens a verb phrase is made of: auxiliaries avoir, être and aller,
\* a participle and a finite form of manger, the participle of avoir, an adverb
PhraseKinds ==
    { Token("ai", "avoir", "AUX", "aux:tense", "VerbForm=Fin"),
      Token("suis", "être", "AUX", "aux:tense", "VerbForm=Fin"),
      Token("vais", "aller", "AUX", "aux", "VerbForm=Fin"),
      Token("mangé", "manger", "VERB", "dep", "VerbForm=Part"),
      Token("mange", "manger", "VERB", "dep", "VerbForm=Fin"),
      Token("eu", "avoir", "VERB", "dep", "VerbForm=Part"),
      Token("rapidement", "rapidement", "ADV", "advmod", "") }

\* a caller holding the tokens of a verb phrase, in sentence order
InitTense ==
    /\ rules = load_rules(AllQuiet)
    /\ registered = [t \in RuleType |-> IF t = "PUNCTUATION" THEN None ELSE AllQuiet[t]]
    /\ op = "idle"
    /\ \/ arg = <<>>
       \/ \E n \in 1..MaxPhrase : \E ks \in [1..n -> PhraseKinds], h \in Trees(n) :
              arg = MkDoc(ks, h)
    /\ text = <<>> /\ errors = <<>> /\ result = NoResult
    /\ got = None /\ ai = 0 /\ calls = NoCalls /\ raised = FALSE

\* detect_compound_tenses(verb_phrase)
Detect ==
    /\ op = "idle"
    /\ got' = detect_compound_tenses(arg)
    /\ op' = "detect"
    /\ UNCHANGED <<rules, registered, arg, text, errors, result, ai, calls, raised>>

NextTense == Detect

SpecTense == InitTense /\ [][NextTense]_vars

\* the positions of the auxiliaries of the phrase
AuxiliariesOf(vp) == {k \in DOMAIN vp : vp[k].pos = "AUX"}

\* the token at k is a verb tagged as a past participle
IsParticiple(vp, k) == vp[k].pos = "VERB" /\ vp[k].tag = "VerbForm=Part"

\* exactly one auxiliary, avoir or être, governing a past participle
OneAuxiliaryGovernsParticiple(vp) ==
    /\ Cardinality(AuxiliariesOf(vp)) = 1
    /\ \E a \in AuxiliariesOf(vp) :
          /\ vp[a].lemma \in {"avoir", "être"}
          /\ \E k \in DOMAIN vp : IsParticiple(vp, k) /\ vp[k].head = a /\ k # a

\* two auxiliaries, the first avoir or être and the second avoir, both in
\* front of a past participle
TwoAuxiliariesBeforeParticiple(vp) ==
    /\ Cardinality(AuxiliariesOf(vp)) = 2
    /\ \E a, b \in AuxiliariesOf(vp) :
          /\ a < b
          /\ vp[a].lemma \in {"avoir", "être"}
          /\ vp[b].lemma = "avoir"
          /\ \E k \in DOMAIN vp : IsParticiple(vp, k) /\ k > b

\* C15: detect_compound_tenses returns "passé composé" exactly when the phrase
\* has exactly one auxiliary, avoir or être, governing a past-participle-tagged
\* verb; "plus-que-parfait" exactly when it has two auxiliaries, the first
\* avoir or être and the second avoir, before the participle; None otherwise.
C15_TenseDetection ==
    op = "detect" =>
        /\ got = PasseCompose <=> OneAuxiliaryGovernsParticiple(arg)
        /\ got = PlusQueParfait <=> TwoAuxiliariesBeforeParticiple(arg)
        /\ got = None <=> (/\ ~OneAuxiliaryGovernsParticiple(arg)
                           /\ ~TwoAuxiliariesBeforeParticiple(arg))

----------------------------------------------------------------------------
(* FrenchGrammarChecker.batch_check *)

MaxBatch == 2
MaxItem == 1

\* the texts handed over in one batch
BatchItems == {s \in Texts : Len(s) <= MaxItem}
Batches == UNION {[1..n -> BatchItems] : n \in 0..MaxBatch}

\* the length of the first maximal run of whitespace or of non-whitespace in s
FirstRun(s) ==
    CHOOSE n \in 1..Len(s) :
        /\ \A k \in 1..n : (s[k] = " ") <=> (s[1] = " ")
        /\ n = Len(s) \/ ~((s[n + 1] = " ") <=> (s[1] = " "))

\* the Doc the pipeline makes of s: its tokens and whitespace, piece by piece
RECURSIVE pipe_doc(_)
pipe_doc(s) ==
    IF s = <<>> THEN <<>>
    ELSE <<SubSeq(s, 1, FirstRun(s))>> \o pipe_doc(SubSeq(s, FirstRun(s) + 1, Len(s)))

\* doc.text: the pieces of the Doc joined
RECURSIVE doc_text(_)
doc_text(doc) == IF doc = <<>> THEN <<>> ELSE Head(doc) \o doc_text(Tail(doc))

\* faulty variant: documents without a token are left out of the batch
batch_check_nonblank(d, texts, fails) ==
    LET docs == [i \in DOMAIN texts |-> pipe_doc(texts[i])]
        kept == {i \in DOMAIN docs : strip(doc_text(docs[i])) # <<>>}
        nth(j) == CHOOSE i \in kept : Cardinality({k \in kept : k < i}) = j - 1
    IN  [j \in 1..Cardinality(kept) |->
            checker_check(d, doc_text(docs[nth(j)]), fails[nth(j)])]

\* FrenchGrammarChecker.batch_check; fails[i] is the call of the AI model that
\* raises during the check of the i-th text (0: none)
batch_check(d, texts, fails) ==
    LET docs == [i \in DOMAIN texts |-> pipe_doc(texts[i])]
    IN  [i \in DOMAIN docs |-> checker_check(d, doc_text(docs[i]), fails[i])]

RECURSIVE total(_, _)
total(rs, f) == IF rs = <<>> THEN 0 ELSE rs[1].calls[f] + total(Tail(rs), f)

\* a checker whose built-in rules all stay quiet or all report
InitBatch ==
    /\ \E b \in {AllQuiet, AllFlag} :
          /\ rules = load_rules(b)
          /\ registered = [t \in RuleType |-> IF t = "PUNCTUATION" THEN None ELSE b[t]]
    /\ op = "idle"
    /\ arg = None
    /\ text = <<>> /\ errors = <<>> /\ result = NoResult
    /\ got = None /\ ai = 0 /\ calls = NoCalls /\ raised = FALSE

\* FrenchGrammarChecker.batch_check(ts)
BatchCheck ==
    \E ts \in Batches :
        \E fs \in [DOMAIN ts -> 0..NumPrompts] :
            LET rs == batch_check(rules, ts, fs)
            IN  /\ op = "idle"
                /\ result' = rs
                /\ arg' = ts
                /\ ai' = fs
                /\ calls' = [nlp |-> Len(ts) + total(rs, "nlp"), ai |-> total(rs, "ai")]
                /\ raised' = \E i \in DOMAIN rs : rs[i].exc
                /\ op' = "batch_check"
                /\ UNCHANGED <<rules, registered, text, errors, got>>

NextBatch == BatchCheck \/ Return

SpecBatch == InitBatch /\ [][NextBatch]_vars

\* the sequence sq back to front
Reversed(sq) == [i \in DOMAIN sq |-> sq[Len(sq) + 1 - i]]

====
